---- MODULE Spec2Model ----
(***************************************************************************)
(* The background-audio controller of WEBAPEX (src/Project/audio.js): the  *)
(* initialization pass, the two-stage autoplay routine, the control        *)
(* widget's event handlers, the persistence of preferences, and the praise *)
(* voice API with its shuffle session.                                     *)
(*                                                                         *)
(* Representation.  A JavaScript string is a sequence of one-character     *)
(* strings, so that toLowerCase, trim, replace, parseFloat and String are  *)
(* computed character by character.  A JavaScript number is an integer     *)
(* count of hundredths (0.6 is 60, 39.9 is 3990, 50 is 5000); the result   *)
(* of parseFloat is a record that is either NaN or such a count.           *)
(***************************************************************************)
EXTENDS Integers, Sequences, FiniteSets, TLC

(***************************************************************************)
(* Characters and strings                                                  *)
(***************************************************************************)
UpperChars ==
    <<"A","B","C","D","E","F","G","H","I","J","K","L","M",
      "N","O","P","Q","R","S","T","U","V","W","X","Y","Z">>

LowerChars ==
    <<"a","b","c","d","e","f","g","h","i","j","k","l","m",
      "n","o","p","q","r","s","t","u","v","w","x","y","z">>

DigitChars == <<"0","1","2","3","4","5","6","7","8","9">>

\* The position of character c in chars, 0 when it is not there.
IndexIn(c, chars) ==
    IF \E i \in 1..Len(chars) : chars[i] = c
    THEN CHOOSE i \in 1..Len(chars) : chars[i] = c
    ELSE 0

IsDigit(c) == IndexIn(c, DigitChars) # 0

DigitVal(c) == IndexIn(c, DigitChars) - 1

\* The characters the regular expression class \s and trim() treat as space.
IsSpace(c) == c \in {" ", "\t", "\n"}

\* String.prototype.toLowerCase
toLowerCase(s) ==
    [i \in 1..Len(s) |->
        LET u == IndexIn(s[i], UpperChars)
        IN  IF u = 0 THEN s[i] ELSE LowerChars[u]]

\* String.prototype.toUpperCase (used to build call arguments only)
toUpperCase(s) ==
    [i \in 1..Len(s) |->
        LET l == IndexIn(s[i], LowerChars)
        IN  IF l = 0 THEN s[i] ELSE UpperChars[l]]

RECURSIVE trimStart(_)
trimStart(s) ==
    IF Len(s) > 0 /\ IsSpace(Head(s)) THEN trimStart(Tail(s)) ELSE s

RECURSIVE trimEnd(_)
trimEnd(s) ==
    IF Len(s) > 0 /\ IsSpace(s[Len(s)])
    THEN trimEnd(SubSeq(s, 1, Len(s) - 1))
    ELSE s

\* String.prototype.trim
trim(s) == trimEnd(trimStart(s))

\* s.replace(/\s+/g, '')
replaceSpaces(s) == SelectSeq(s, LAMBDA c : ~IsSpace(c))

(***************************************************************************)
(* Numbers: parseFloat and String(number)                                  *)
(***************************************************************************)
NaN == [nan |-> TRUE, v |-> 0]

Num(n) == [nan |-> FALSE, v |-> n]

isNaN(x) == x.nan

\* The number of consecutive digits of s from position i on.
RECURSIVE DigitRun(_, _)
DigitRun(s, i) ==
    IF i <= Len(s) /\ IsDigit(s[i]) THEN 1 + DigitRun(s, i + 1) ELSE 0

\* The decimal value of the n digits of s that start at position i.
RECURSIVE DigitsValue(_, _, _)
DigitsValue(s, i, n) ==
    IF n = 0 THEN 0
    ELSE DigitsValue(s, i, n - 1) * 10 + DigitVal(s[i + n - 1])

\* parseFloat: leading white space is skipped, then an optional sign, digits
\* and an optional fraction are read; what follows is ignored; no digit at
\* all gives NaN.  Fractions are read to two places (the model's numbers are
\* hundredths).
parseFloat(str) ==
    LET s      == trimStart(str)
        signed == Len(s) > 0 /\ s[1] \in {"-", "+"}
        neg    == Len(s) > 0 /\ s[1] = "-"
        b      == IF signed THEN 2 ELSE 1
        ni     == DigitRun(s, b)
        hasDot == b + ni <= Len(s) /\ s[b + ni] = "."
        nf     == IF hasDot THEN DigitRun(s, b + ni + 1) ELSE 0
        ip     == DigitsValue(s, b, ni)
        f1     == IF nf >= 1 THEN DigitVal(s[b + ni + 1]) ELSE 0
        f2     == IF nf >= 2 THEN DigitVal(s[b + ni + 2]) ELSE 0
        mag    == ip * 100 + f1 * 10 + f2
    IN  IF ni = 0 /\ nf = 0 THEN NaN
        ELSE Num(IF neg THEN 0 - mag ELSE mag)

\* The decimal digits of a natural number.
RECURSIVE NatDigits(_)
NatDigits(n) ==
    IF n < 10 THEN <<DigitChars[n + 1]>>
    ELSE NatDigits(n \div 10) \o <<DigitChars[(n % 10) + 1]>>

\* String(number) for a count of hundredths: "0.6", "1", "39.9", "0.05".
NumberToString(n) ==
    LET a    == IF n < 0 THEN 0 - n ELSE n
        ip   == a \div 100
        fp   == a % 100
        frac == IF fp = 0 THEN <<>>
                ELSE IF fp % 10 = 0 THEN <<".", DigitChars[(fp \div 10) + 1]>>
                ELSE <<".", DigitChars[(fp \div 10) + 1], DigitChars[(fp % 10) + 1]>>
    IN  (IF n < 0 THEN <<"-">> ELSE <<>>) \o NatDigits(ip) \o frac

\* String(boolean)
BooleanToString(b) ==
    IF b THEN <<"t","r","u","e">> ELSE <<"f","a","l","s","e">>

\* What getItem returns for a key that was never set.  It is no string:
\* parseFloat(null) is NaN and null === 'true' is false.
null == <<"<null>">>

(***************************************************************************)
(* State                                                                   *)
(***************************************************************************)
VARIABLES
    page,            \* the document the script runs in: [standIn, duration, open, controls, storage]
    script,          \* the controller script the document includes
    bound,           \* the controls the handlers are attached to
    phase,           \* "unloaded", "ready" (initialization ran to its end), "leaving", "crashed"
    audio,           \* the audio element: [muted, volume, paused, currentTime, readyState]
    localStorage,    \* [vol |-> webapex-audio-volume, muted |-> webapex-audio-muted]
    sessionStorage,  \* [time |-> webapex-audio-time, playing |-> webapex-audio-playing]
    savedMuted,      \* const savedMuted
    savedTime,       \* const savedTime
    muteBtnText,     \* muteBtn.textContent
    toggleOpacity,   \* toggleBtn.style.opacity
    panel,           \* [open |-> class 'open' on controlRoot, ariaHidden, display]
    autoplay,        \* position of tryUnmutedAutoplay's promise chain
    armed,           \* playOnInteraction is still registered on the document
    metaListener,    \* setTime is registered for 'loadedmetadata'
    persistInterval, \* the interval timer of persistState is set
    volumeChange,    \* a 'volumechange' event is queued for updateToggleOpacity
    shuffle,         \* _praiseShuffleState: [timers, running, lastShuffle]
    pendingTimers,   \* the platform's pending setTimeout timers of the shuffle
    sessCount,       \* number of shuffle sequences scheduled so far
    speech,          \* the speech requests issued by the last step
    ret,             \* what the last praise call returned
    synth,           \* what the window offers: "speech" (speechSynthesis) or "tone"
    speaking,        \* an utterance of the praise voice is in progress
    held,            \* a handle of playPraiseShuffle the caller has kept
    cancelled,       \* history: the pending timers the last step cleared
    lastEvent,       \* history: the last step, [op, arg]
    mutePre,         \* history: webapex-audio-muted before the last (two) mute clicks
    roundTrip        \* history: mute was set to true ("armed"), then the page left ("reloaded")

ctrlVars ==
    <<page, script, bound, phase, audio, localStorage, sessionStorage, savedMuted, savedTime,
      muteBtnText, toggleOpacity, panel, autoplay, armed, metaListener,
      persistInterval, volumeChange>>

praiseVars ==
    <<shuffle, pendingTimers, sessCount, speech, ret, synth, speaking, held,
      cancelled>>

histVars == <<lastEvent, mutePre, roundTrip>>

vars == <<ctrlVars, praiseVars, histVars>>

(***************************************************************************)
(* Program constants                                                       *)
(***************************************************************************)
\* audio.volume when no valid volume was saved (0.6)
DefaultVolume == 60

\* the distance kept from the end of the media when the saved position is
\* clamped (0.1 s)
ClampMargin == 10

\* the default interval of playPraiseShuffle
DefaultIntervalMs == 700

\* the delay added to the cleanup timer of a shuffle
CleanupSlackMs == 100

STR_true == <<"t","r","u","e">>

STR_false == <<"f","a","l","s","e">>

None == <<"<none>">>

Max(a, b) == IF a >= b THEN a ELSE b

Min(a, b) == IF a <= b THEN a ELSE b

Event(op, arg) == [op |-> op, arg |-> arg]

(***************************************************************************)
(* The environment: documents, stored values, inputs                       *)
(***************************************************************************)
\* Media durations in hundredths of a second: empty media, media shorter
\* than the clamp margin, 40 s and 50 s.
Durations == {0, 5, 4000, 5000}

\* A document either has #bg-audio (a real media element of some duration)
\* or lacks it (the in-memory stand-in is created); the markup may or may
\* not carry the class 'open' on the control root.
\* The storages of the browsing context: "ok", "readonly" (setItem throws,
\* as when the quota is zero in a private window) or "denied" (every access
\* throws).
StorageModes == {"ok", "readonly", "denied"}

\* Of the five control elements the markup has all, some or none.
Pages ==
    [standIn : {FALSE}, duration : Durations, open : BOOLEAN, controls : {"all"},
     storage : StorageModes]
        \cup [standIn : {FALSE}, duration : Durations, open : {FALSE},
               controls : {"some", "none"}, storage : StorageModes]
        \cup [standIn : {TRUE}, duration : {0}, open : {FALSE},
               controls : {"all", "some", "none"}, storage : StorageModes]

\* The two controller scripts of the repository.
Scripts == {"audio.js", "part_000"}

\* Values found under webapex-audio-volume at load: absent, not a number,
\* negative, above 1, and valid ones.
StoredVolumes ==
    { null,
      <<"a","b","c">>,
      <<"-","0",".","5">>,
      <<"1",".","5">>,
      <<"0",".","3">> }

StoredMuted == { null, STR_true, STR_false }

\* Values found under webapex-audio-time at load.
StoredTimes == { null, <<"4","0">>, <<"5","0">> }

\* Values of the volume slider delivered with an input event.
SliderValues == { <<"0">>, <<"0",".","7">>, <<"1",".","5">> }

\* A media element as the document creates it.
NewAudio(rs) ==
    [muted |-> FALSE, volume |-> 100, paused |-> TRUE, currentTime |-> 0,
     readyState |-> rs]

ReadyStates(p) == IF p.standIn THEN {0} ELSE {0, 1}

\* The class 'open' can only come with the markup's own control root.
NewPanel(p) ==
    [open |-> p.open,
     ariaHidden |-> BooleanToString(~p.open),
     display |-> IF p.open THEN "flex" ELSE "none"]

EmptyShuffle == [timers |-> <<>>, running |-> FALSE, lastShuffle |-> <<>>]

NoSpeech == <<>>

Undefined == [kind |-> "undefined", phrases |-> <<>>]

\* The caller holds no handle.
NoHandle == [has |-> FALSE, sess |-> 0, phrases |-> <<>>, shared |-> FALSE]

InitController ==
    /\ page \in Pages
    /\ script \in Scripts
    /\ bound = "none"
    /\ phase = "unloaded"
    /\ audio \in {NewAudio(rs) : rs \in ReadyStates(page)}
    /\ localStorage \in [vol : StoredVolumes, muted : StoredMuted]
    /\ sessionStorage \in [time : StoredTimes, playing : {null}]
    /\ savedMuted = FALSE
    /\ savedTime = NaN
    /\ muteBtnText = "Mute"
    /\ toggleOpacity = "1"
    /\ panel = NewPanel(page)
    /\ autoplay = "idle"
    /\ armed = FALSE
    /\ metaListener = FALSE
    /\ persistInterval = FALSE
    /\ volumeChange = FALSE
    /\ shuffle = EmptyShuffle
    /\ pendingTimers = {}
    /\ sessCount = 0
    /\ speech = NoSpeech
    /\ ret = Undefined
    /\ speaking = FALSE
    /\ held = NoHandle
    /\ cancelled = 0
    /\ lastEvent = Event("none", <<>>)
    /\ mutePre = <<None, None>>
    /\ roundTrip = "none"

\* The praise-enabled controller on every document that has the control
\* elements, with working storages and every stored preference.
Init ==
    /\ InitController
    /\ script = "audio.js"
    /\ page.controls = "all"
    /\ page.storage = "ok"
    /\ synth = "speech"

(***************************************************************************)
(* The controller's handlers, as functions of the state they read and      *)
(* write: s = [audio, ls, text, opacity, panel, armed, vc]                 *)
(***************************************************************************)
St ==
    [audio |-> audio, ls |-> localStorage, text |-> muteBtnText,
     opacity |-> toggleOpacity, panel |-> panel, armed |-> armed,
     vc |-> volumeChange]

Commit(s) ==
    /\ audio' = s.audio
    /\ localStorage' = s.ls
    /\ muteBtnText' = s.text
    /\ toggleOpacity' = s.opacity
    /\ panel' = s.panel
    /\ armed' = s.armed
    /\ volumeChange' = s.vc

\* localStorage.getItem / sessionStorage.getItem return
StorageReadable == page.storage # "denied"

\* localStorage.setItem / sessionStorage.setItem return
StorageWritable == page.storage = "ok"

\* localStorage.setItem('webapex-audio-muted', v): the value is stored, or
\* the call throws and the store is as it was.
setMutedItem(s, v) == IF StorageWritable THEN [s EXCEPT !.ls.muted = v] ELSE s

\* When the muted flag or the volume of a media element changes value, the
\* element queues a 'volumechange' event.  updateToggleOpacity listens for
\* it on the page's element; the stand-in's addEventListener registers
\* nothing.
notify(s, changed) == [s EXCEPT !.vc = s.vc \/ (changed /\ ~page.standIn)]

\* audio.muted = m
setMuted(s, m) == notify([s EXCEPT !.audio.muted = m], m # s.audio.muted)

\* audio.volume = v
setVolume(s, v) == notify([s EXCEPT !.audio.volume = v], v # s.audio.volume)

\* muteBtn.textContent = audio.muted ? 'Muted' : 'Mute'
MuteLabel(m) == IF m THEN "Muted" ELSE "Mute"

\* audio.play() called from a user gesture handler, its rejection swallowed.
\* The media element starts playing; the stand-in's play() does nothing and
\* its paused stays true.
play(s) == [s EXCEPT !.audio.paused = page.standIn]

\* audio.volume = v: the media element accepts a finite value in [0,1] and
\* throws otherwise (TypeError for NaN, IndexSizeError out of range).
VolumeAccepted(x) == ~isNaN(x) /\ x.v >= 0 /\ x.v <= 100

\* audio.currentTime = t on the media element once its duration is known:
\* the seek moves a position later than the end of the media to the end.
seek(a, t, d) == [a EXCEPT !.currentTime = Max(0, Min(t, d))]

\* setTime clamping only a position beyond the duration (> for >=)
setTime_strictlyBeyond(a, t, d) ==
    IF d # 0 /\ t > d
    THEN seek(a, Max(0, d - ClampMargin), d)
    ELSE seek(a, t, d)

\* const setTime = () => { ... }   (duration is known: readyState >= 1)
setTime(a, t, d) ==
    IF d # 0 /\ t >= d
    THEN seek(a, Max(0, d - ClampMargin), d)
    ELSE seek(a, t, d)

\* const updateToggleOpacity = () => { ... }
updateToggleOpacity(s) ==
    [s EXCEPT !.opacity = IF s.audio.muted THEN "0.6" ELSE "1"]

\* const setOpen = (open) => { ... }
setOpen(s, open) ==
    [s EXCEPT !.panel = [open |-> open,
                         ariaHidden |-> BooleanToString(~open),
                         display |-> IF open THEN "flex" ELSE "none"]]

\* the then-callback of the first play() of tryUnmutedAutoplay
autoplayUnmutedSucceeded(s) ==
    setMutedItem([s EXCEPT !.text = MuteLabel(s.audio.muted),
                           !.audio.paused = page.standIn],
                 BooleanToString(s.audio.muted))

\* the catch-callback requesting playback again without muting
autoplayUnmutedBlocked_staysUnmuted(s) == s

\* the catch-callback of the first play(): fall back to muted autoplay
autoplayUnmutedBlocked(s) == setMuted(s, TRUE)

\* the then-callback of the second play()
autoplayMutedSucceeded(s) ==
    setMutedItem([s EXCEPT !.text = "Muted", !.audio.paused = page.standIn],
                 STR_true)

\* playOnInteraction without the two removeEventListener calls
playOnInteraction_staysRegistered(s) ==
    IF ~savedMuted
    THEN setMutedItem([play(setMuted(s, FALSE))
                         EXCEPT !.text = "Mute"], STR_false)
    ELSE s

\* const playOnInteraction = () => { ... }
playOnInteraction(s) ==
    LET s1 == [s EXCEPT !.armed = FALSE]
    IN  IF ~savedMuted
        THEN setMutedItem([play(setMuted(s1, FALSE))
                             EXCEPT !.text = "Mute"], STR_false)
        ELSE s1

\* document.addEventListener('click', ...): click outside closes the panel
clickOutside(s, inside) ==
    IF ~inside /\ s.panel.open THEN setOpen(s, FALSE) ELSE s

\* The document's click listeners in registration order, run when a click
\* bubbles up to the document.
documentClick(s, inside) ==
    clickOutside(IF s.armed THEN playOnInteraction(s) ELSE s, inside)

\* a toggle handler that opens and closes the panel
toggleBtnClick_opensPanel(s) == setOpen(s, ~s.panel.open)

\* toggleBtn.addEventListener('click', ...): when setItem throws the
\* handler ends there, before play() and updateToggleOpacity().
toggleBtnClick(s) ==
    IF s.panel.open THEN setOpen(s, FALSE)
    ELSE LET m  == ~s.audio.muted
             s1 == [setMuted(s, m) EXCEPT !.text = MuteLabel(m)]
             s2 == setMutedItem(s1, BooleanToString(m))
         IN  IF ~StorageWritable THEN s1
             ELSE updateToggleOpacity(IF ~m THEN play(s2) ELSE s2)

\* the slider's handler without audio.muted = false
volSliderInput_keepsMute(s, value) ==
    LET v == parseFloat(value)
    IN  IF ~VolumeAccepted(v) THEN s
        ELSE [setVolume(s, v.v) EXCEPT !.text = "Mute",
                                       !.ls.vol = NumberToString(v.v),
                                       !.ls.muted = STR_false]

\* volSlider.addEventListener('input', ...): the two setItem calls come
\* last, and the first to throw ends the handler.
volSliderInput(s, value) ==
    LET v  == parseFloat(value)
        s1 == [setMuted(setVolume(s, v.v), FALSE) EXCEPT !.text = "Mute"]
    IN  IF ~VolumeAccepted(v) THEN s
        ELSE IF ~StorageWritable THEN s1
        ELSE [s1 EXCEPT !.ls.vol = NumberToString(v.v),
                        !.ls.muted = STR_false]

\* muteBtn.addEventListener('click', ...): when setItem throws the handler
\* ends there, before play().
muteBtnClick(s) ==
    LET m  == ~s.audio.muted
        s1 == [setMuted(s, m) EXCEPT !.text = MuteLabel(m)]
        s2 == setMutedItem(s1, BooleanToString(m))
    IN  IF ~StorageWritable THEN s1
        ELSE IF ~m THEN play(s2) ELSE s2

\* const persistState = () => { ... }: what it leaves in the session
\* storage; an exception of setItem is caught.
persistState(a) ==
    IF StorageWritable
    THEN [time |-> NumberToString(a.currentTime),
          playing |-> BooleanToString(~a.paused /\ ~a.muted)]
    ELSE sessionStorage

(***************************************************************************)
(* The initialization pass                                                 *)
(***************************************************************************)
\* Lines 16-29: without #bg-audio an element is created and given the
\* stand-in's fields (its read-only paused is not changed by the assignment).
withStandIn(a) ==
    IF page.standIn THEN [a EXCEPT !.muted = FALSE, !.volume = DefaultVolume]
    ELSE a

\* Lines 32-76: when one of the five elements is missing a whole control is
\* created and appended to the body; the root is the new one, and each
\* getElementById finds the first element of that id in the document: the
\* markup's own where it has one, the new one otherwise.
reboundControls(p) ==
    IF p.controls = "all" THEN "page"
    ELSE IF p.controls = "some" THEN "mixed"
    ELSE "synthesized"

\* audio.volume = !isNaN(savedVol) ? savedVol : 0.6
restoredVolume(savedVol) ==
    IF ~isNaN(savedVol) THEN savedVol ELSE Num(DefaultVolume)

\* const restorePosition = () => { ... } up to the call of tryUnmutedAutoplay:
\* the element after it and whether setTime was left waiting for metadata.
restorePosition(a, t) ==
    IF ~isNaN(t)
    THEN IF a.readyState >= 1
         THEN [audio |-> setTime(a, t.v, page.duration), waiting |-> FALSE]
         ELSE [audio |-> a, waiting |-> ~page.standIn]
    ELSE [audio |-> a, waiting |-> FALSE]

\* The first play() of tryUnmutedAutoplay resolved: its then-callback runs;
\* when setItem throws in it the promise is rejected and the catch-callback
\* runs as for a blocked request.
afterPlay1Resolved(s) ==
    IF StorageWritable
    THEN [s |-> autoplayUnmutedSucceeded(s), next |-> "unmuted"]
    ELSE [s |-> autoplayUnmutedBlocked(autoplayUnmutedSucceeded(s)), next |-> "try2"]

\* The second play() resolved (nothing to do when the routine has already
\* resolved as unmuted): its then-callback runs; an exception thrown in it
\* ends in the last catch-callback, which only logs.
afterPlay2Resolved(r) ==
    IF r.next # "try2" THEN r
    ELSE [s |-> autoplayMutedSucceeded(r.s),
          next |-> IF StorageWritable THEN "muted" ELSE "stopped"]

\* The script runs from its first line.  The first getItem throws when the
\* storage is denied, and the assignment of the saved volume throws when the
\* media element rejects the value: nothing after it runs.  Otherwise the pass runs to its end, with the first playback request
\* pending.  The stand-in's play() returns a resolved promise, whose
\* then-callback runs as soon as the script has ended.
Load ==
    /\ phase = "unloaded"
    /\ script = "audio.js"
    /\ LET a0  == withStandIn(audio)
           vol == restoredVolume(parseFloat(localStorage.vol))
           sm  == localStorage.muted = STR_true
           st  == parseFloat(sessionStorage.time)
           rp  == restorePosition([a0 EXCEPT !.volume = vol.v], st)
           s0  == [St EXCEPT !.audio = [rp.audio EXCEPT !.muted = FALSE],
                             !.text = MuteLabel(sm),
                             !.armed = TRUE,
                             !.vc = ~page.standIn
                                       /\ (vol.v # a0.volume \/ a0.muted)]
           s1  == updateToggleOpacity(s0)
       IN  IF ~StorageReadable \/ ~VolumeAccepted(vol)
           THEN /\ phase' = "crashed"
                /\ audio' = a0
                /\ bound' = "none"
                /\ persistInterval' = FALSE
                /\ volumeChange' = FALSE
                /\ lastEvent' = Event("load", <<"threw">>)
                /\ UNCHANGED <<localStorage, savedMuted, savedTime, muteBtnText,
                               toggleOpacity, panel, autoplay, armed, metaListener>>
           ELSE /\ phase' = "ready"
                /\ bound' = reboundControls(page)
                /\ persistInterval' = TRUE
                /\ savedMuted' = sm
                /\ savedTime' = st
                /\ metaListener' = rp.waiting
                /\ IF page.standIn
                   THEN /\ Commit(afterPlay2Resolved(afterPlay1Resolved(s1)).s)
                        /\ autoplay' = afterPlay2Resolved(afterPlay1Resolved(s1)).next
                   ELSE /\ Commit(s1)
                        /\ autoplay' = "try1"
                /\ lastEvent' =
                       Event("load", IF ~isNaN(st) /\ audio.readyState >= 1
                                     THEN <<"setTime">> ELSE <<>>)
    /\ mutePre' = <<None, None>>
    /\ UNCHANGED <<page, script, sessionStorage, roundTrip, praiseVars>>

\* 'loadedmetadata': the duration becomes known; setTime runs if it waited.
LoadedMetadata ==
    /\ phase = "ready"
    /\ ~page.standIn
    /\ audio.readyState = 0
    /\ LET a1 == [audio EXCEPT !.readyState = 1]
       IN  audio' = IF metaListener THEN setTime(a1, savedTime.v, page.duration)
                    ELSE a1
    /\ metaListener' = FALSE
    /\ lastEvent' = Event("loadedmetadata",
                          IF metaListener THEN <<"setTime">> ELSE <<>>)
    /\ mutePre' = <<None, None>>
    /\ UNCHANGED <<page, script, bound, persistInterval, volumeChange, phase,
                   localStorage, sessionStorage, savedMuted, savedTime,
                   muteBtnText, toggleOpacity, panel, autoplay, armed,
                   roundTrip, praiseVars>>

(***************************************************************************)
(* tryUnmutedAutoplay: the outcomes of its two playback requests           *)
(***************************************************************************)
AutoplayStep(op, s, next) ==
    /\ Commit(s)
    /\ autoplay' = next
    /\ lastEvent' = Event(op, <<>>)
    /\ mutePre' = <<None, None>>
    /\ UNCHANGED <<page, script, bound, persistInterval, phase, sessionStorage, savedMuted, savedTime,
                   metaListener, roundTrip, praiseVars>>

\* The first request succeeded (playback started, so metadata is there).
Play1Resolve ==
    /\ phase = "ready"
    /\ autoplay = "try1"
    /\ audio.readyState >= 1
    /\ AutoplayStep("play1-resolved", afterPlay1Resolved(St).s,
                    afterPlay1Resolved(St).next)

\* The first request was rejected: mute and request playback again.
Play1Reject ==
    /\ phase = "ready"
    /\ autoplay = "try1"
    /\ AutoplayStep("play1-rejected", autoplayUnmutedBlocked(St), "try2")

Play2Resolve ==
    /\ phase = "ready"
    /\ autoplay = "try2"
    /\ audio.readyState >= 1
    /\ AutoplayStep("play2-resolved",
                    afterPlay2Resolved([s |-> St, next |-> "try2"]).s,
                    afterPlay2Resolved([s |-> St, next |-> "try2"]).next)

\* The second request was rejected too: only a warning is logged.
Play2Reject ==
    /\ phase = "ready"
    /\ autoplay = "try2"
    /\ AutoplayStep("play2-rejected", St, "stopped")

(***************************************************************************)
(* User events.  A click is dispatched to the listeners of its target and  *)
(* then to those of the document, in one task.                             *)
(***************************************************************************)
UserEvent(op, arg, s) ==
    /\ phase = "ready"
    /\ Commit(s)
    /\ lastEvent' = Event(op, arg)
    /\ UNCHANGED <<page, script, bound, persistInterval, phase, sessionStorage, savedMuted, savedTime,
                   autoplay, metaListener, praiseVars>>

\* What a handler that negates audio.muted does to the flag m.
FlipOf(m) == IF m THEN "unmute" ELSE "mute"

\* The click set the mute preference to true and that is what is stored.
SetMuteTrue(s) ==
    ~audio.muted /\ ~panel.open /\ s.audio.muted /\ s.ls.muted = STR_true

SliderInput(value) ==
    /\ UserEvent("slider", value, volSliderInput(St, value))
    /\ mutePre' = <<None, None>>
    /\ roundTrip' = "none"

MuteBtnClick ==
    LET s == documentClick(muteBtnClick(St), TRUE)
    IN  /\ UserEvent("muteBtn", <<FlipOf(audio.muted)>>, s)
        /\ mutePre' = <<localStorage.muted,
                        IF lastEvent.op = "muteBtn" THEN mutePre[1] ELSE None>>
        /\ roundTrip' = IF ~audio.muted /\ s.audio.muted /\ s.ls.muted = STR_true
                        THEN "armed" ELSE "none"

ToggleBtnClick ==
    LET s == documentClick(toggleBtnClick(St), TRUE)
    IN  /\ UserEvent("toggleBtn",
                     <<IF panel.open THEN "close" ELSE FlipOf(audio.muted)>>, s)
        /\ mutePre' = <<None, None>>
        /\ roundTrip' = IF SetMuteTrue(s) THEN "armed" ELSE "none"

\* A click somewhere outside the control.
DocumentClick ==
    /\ UserEvent("click", <<>>, documentClick(St, FALSE))
    /\ mutePre' = <<None, None>>
    /\ roundTrip' = "none"

\* A key press: only playOnInteraction listens for it.
KeyDown ==
    /\ UserEvent("keydown", <<>>, IF armed THEN playOnInteraction(St) ELSE St)
    /\ mutePre' = <<None, None>>
    /\ roundTrip' = "none"

\* The queued 'volumechange' event is dispatched: updateToggleOpacity runs.
VolumeChange ==
    /\ phase \in {"ready", "leaving", "legacy"}
    /\ volumeChange
    /\ toggleOpacity' = updateToggleOpacity(St).opacity
    /\ volumeChange' = FALSE
    /\ lastEvent' = Event("volumechange", <<>>)
    /\ mutePre' = <<None, None>>
    /\ UNCHANGED <<page, script, bound, persistInterval, phase, audio,
                   localStorage, sessionStorage, savedMuted, savedTime,
                   muteBtnText, panel, autoplay, armed, metaListener, roundTrip,
                   praiseVars>>

(***************************************************************************)
(* Persistence of the playback state, and leaving the page                 *)
(***************************************************************************)
PersistStep(op) ==
    /\ sessionStorage' = persistState(audio)
    /\ lastEvent' = Event(op, <<>>)
    /\ mutePre' = <<None, None>>
    /\ UNCHANGED <<page, script, bound, audio, localStorage, savedMuted,
                   savedTime, muteBtnText, toggleOpacity, panel, autoplay, armed,
                   metaListener, volumeChange, roundTrip, praiseVars>>

\* A tick of persistInterval.
PersistTick ==
    /\ phase \in {"ready", "leaving"}
    /\ persistInterval
    /\ PersistStep("persist")
    /\ UNCHANGED <<phase, persistInterval>>

\* 'visibilitychange' with the document hidden.
VisibilityHidden ==
    /\ phase \in {"ready", "leaving"}
    /\ PersistStep("hidden")
    /\ UNCHANGED <<phase, persistInterval>>

\* 'beforeunload' leaving the interval timer set
BeforeUnload_keepsInterval ==
    /\ phase = "ready"
    /\ phase' = "leaving"
    /\ PersistStep("beforeunload")
    /\ UNCHANGED persistInterval

\* 'beforeunload': persistState(); clearInterval(persistInterval).  The
\* document is about to be left.
BeforeUnload ==
    /\ phase = "ready"
    /\ phase' = "leaving"
    /\ persistInterval' = FALSE
    /\ PersistStep("beforeunload")

\* The end of the document: what is left is the two storages; the same
\* document is loaded again.
Unload ==
    /\ script = "audio.js"
    /\ phase \in {"leaving", "crashed"}
    /\ phase' = "unloaded"
    /\ bound' = "none"
    /\ audio' \in {NewAudio(rs) : rs \in ReadyStates(page)}
    /\ savedMuted' = FALSE
    /\ savedTime' = NaN
    /\ muteBtnText' = "Mute"
    /\ toggleOpacity' = "1"
    /\ panel' = NewPanel(page)
    /\ autoplay' = "idle"
    /\ armed' = FALSE
    /\ metaListener' = FALSE
    /\ persistInterval' = FALSE
    /\ volumeChange' = FALSE
    /\ shuffle' = EmptyShuffle
    /\ pendingTimers' = {}
    /\ sessCount' = 0
    /\ speech' = NoSpeech
    /\ ret' = Undefined
    /\ speaking' = FALSE
    /\ held' = NoHandle
    /\ cancelled' = 0
    /\ lastEvent' = Event("unload", <<>>)
    /\ mutePre' = <<None, None>>
    /\ roundTrip' = IF roundTrip = "armed" THEN "reloaded" ELSE "none"
    /\ UNCHANGED <<page, script, localStorage, sessionStorage, synth>>
(***************************************************************************)
(* The praise voice API                                                    *)
(***************************************************************************)
\* The number of entries of praiseKeyMap the model keeps, in source order.
TableSize == 5

\* The number of shuffle sequences scheduled in one behaviour.
MaxShuffles == 2

praiseKeyMapSource ==
    <<
       [key |-> <<"a","m","a","z","i","n","g">>,
        phrase |-> <<"A","m","a","z","i","n","g","!"," ","T","h","a","t"," ","w","a","s"," ","a","w","e","s","o","m","e","!">>],
       [key |-> <<"c","o","r","r","e","c","t">>,
        phrase |-> <<"C","o","r","r","e","c","t","!"," ","N","i","c","e"," ","w","o","r","k","!">>],
       [key |-> <<"g","o","o","d","j","o","b">>,
        phrase |-> <<"G","o","o","d"," ","j","o","b","!"," ","K","e","e","p"," ","i","t"," ","u","p","!">>],
       [key |-> <<"e","x","c","e","l","l","e","n","t">>,
        phrase |-> <<"E","x","c","e","l","l","e","n","t","!"," ","Y","o","u","'","r","e"," ","o","n"," ","f","i","r","e","!">>],
       [key |-> <<"w","e","l","l"," ","d","o","n","e">>,
        phrase |-> <<"W","e","l","l"," ","d","o","n","e","!"," ","F","a","n","t","a","s","t","i","c","!">>],
       [key |-> <<"n","i","c","e","w","o","r","k">>,
        phrase |-> <<"N","i","c","e"," ","w","o","r","k","!"," ","B","r","i","l","l","i","a","n","t","!">>],
       [key |-> <<"g","o","o","d">>,
        phrase |-> <<"G","o","o","d"," ","j","o","b","!"," ","U+D83D","U+DC4D">>],
       [key |-> <<"b","r","i","l","l","i","a","n","t">>,
        phrase |-> <<"B","r","i","l","l","i","a","n","t","!"," ","A","m","a","z","i","n","g","!">>],
       [key |-> <<"f","a","n","t","a","s","t","i","c">>,
        phrase |-> <<"F","a","n","t","a","s","t","i","c","!"," ","W","o","w","!">>],
       [key |-> <<"s","u","p","e","r","b">>,
        phrase |-> <<"S","u","p","e","r","b","!"," ","G","r","e","a","t"," ","e","f","f","o","r","t","!">>],
       [key |-> <<"t","e","r","r","i","f","i","c">>,
        phrase |-> <<"T","e","r","r","i","f","i","c","!"," ","N","i","c","e","!">>],
       [key |-> <<"o","u","t","s","t","a","n","d","i","n","g">>,
        phrase |-> <<"O","u","t","s","t","a","n","d","i","n","g","!"," ","E","x","c","e","l","l","e","n","t","!">>],
       [key |-> <<"f","a","b","u","l","o","u","s">>,
        phrase |-> <<"F","a","b","u","l","o","u","s","!"," ","W","e","l","l"," ","d","o","n","e","!">>],
       [key |-> <<"g","r","e","a","t">>,
        phrase |-> <<"G","r","e","a","t","!"," ","K","e","e","p"," ","g","o","i","n","g","!">>],
       [key |-> <<"w","o","n","d","e","r","f","u","l">>,
        phrase |-> <<"W","o","n","d","e","r","f","u","l","!"," ","Y","o","u"," ","d","i","d"," ","i","t","!">>]
    >>

\* const praiseKeyMap = { ... }
praiseKeyMap == SubSeq(praiseKeyMapSource, 1, Min(TableSize, Len(praiseKeyMapSource)))

\* Object.keys(praiseKeyMap)
getPraiseKeys == [i \in 1..Len(praiseKeyMap) |-> praiseKeyMap[i].key]

\* Object.values(praiseKeyMap)
praiseValues == [i \in 1..Len(praiseKeyMap) |-> praiseKeyMap[i].phrase]

\* k is an own key of praiseKeyMap
hasKey(k) == \E i \in 1..Len(praiseKeyMap) : praiseKeyMap[i].key = k

\* praiseKeyMap[k] for an own key k
lookup(k) ==
    praiseKeyMap[CHOOSE i \in 1..Len(praiseKeyMap) : praiseKeyMap[i].key = k].phrase

\* function _speakPhrase(text, opts): the request it issues, tagged with the
\* shuffle sequence it was made for (0: none) and the mute flag at the
\* time.  With speech synthesis the utterance is spoken after cancelling the
\* previous one; without it a short tone is played; without both, nothing.
speakPhrase(text, sess) ==
    IF synth = "speech"
    THEN <<[kind |-> "speech", txt |-> text, sess |-> sess,
            whileMuted |-> audio.muted]>>
    ELSE IF synth = "tone"
    THEN <<[kind |-> "tone", txt |-> <<>>, sess |-> sess,
            whileMuted |-> audio.muted]>>
    ELSE <<>>

\* The key resolution of playPraise and playPraiseKey: the phrase mapped to
\* the lower-cased, trimmed argument, or to that with its white space
\* removed, or else the argument itself.
resolvePraise(maybe) ==
    LET key == trim(toLowerCase(maybe))
    IN  IF hasKey(key) THEN lookup(key)
        ELSE IF hasKey(replaceSpaces(key)) THEN lookup(replaceSpaces(key))
        ELSE maybe

PraiseCall(op, arg) ==
    /\ phase = "ready"
    /\ lastEvent' = Event(op, arg)
    /\ mutePre' = <<None, None>>
    /\ UNCHANGED <<ctrlVars, roundTrip, synth>>

\* window.speechSynthesis.cancel(); window.speechSynthesis.speak(u): the
\* utterance of a request made in this step replaces the one in progress.
Spoke ==
    speaking' = IF speech' # NoSpeech /\ synth = "speech" THEN TRUE ELSE speaking

\* A direct call: no timer is set or cleared.
NoTimerChange ==
    /\ cancelled' = 0
    /\ UNCHANGED <<shuffle, pendingTimers, sessCount, held>>

\* window.playPraise = function(preferredPhraseOrKey){ ... }
\* An empty argument is falsy: a phrase of the table is drawn at random.
playPraise(arg) ==
    /\ PraiseCall("playPraise", arg)
    /\ ret' = Undefined
    /\ IF audio.muted THEN speech' = NoSpeech
       ELSE IF arg = <<>>
       THEN \E i \in 1..Len(praiseValues) :
                speech' = speakPhrase(praiseValues[i], 0)
       ELSE speech' = speakPhrase(resolvePraise(arg), 0)
    /\ Spoke
    /\ NoTimerChange

\* window.playPraiseKey = function(key){ ... }
playPraiseKey(key) ==
    /\ PraiseCall("playPraiseKey", key)
    /\ ret' = Undefined
    /\ IF audio.muted THEN speech' = NoSpeech
       ELSE IF key = <<>>
       THEN \E i \in 1..Len(praiseValues) :
                speech' = speakPhrase(praiseValues[i], 0)
       ELSE speech' = speakPhrase(resolvePraise(key), 0)
    /\ Spoke
    /\ NoTimerChange

(***************************************************************************)
(* The shuffle session                                                     *)
(***************************************************************************)
Absent == [has |-> FALSE, v |-> 0]

Some(n) == [has |-> TRUE, v |-> n]

\* stop() leaving the platform's timers alone
stop_keepsTimers(sh, pend) ==
    [shuffle |-> [timers |-> <<>>, running |-> FALSE, lastShuffle |-> <<>>],
     pending |-> pend,
     cancelSpeech |-> TRUE]

\* _praiseShuffleState.stop(): every timer id of the array is cleared, the
\* array is emptied, running and lastShuffle are reset, and the utterance in
\* progress is cancelled.
stop(sh, pend) ==
    [shuffle |-> [timers |-> <<>>, running |-> FALSE, lastShuffle |-> <<>>],
     pending |-> {t \in pend : \A k \in 1..Len(sh.timers) : sh.timers[k] # t.id},
     cancelSpeech |-> TRUE]

\* this.lastShuffle.length = 0 empties the array lastShuffle refers to, the
\* one made for the latest sequence; a handle whose phrases were that same
\* array would lose them.
lengthZero(h) ==
    IF h.has /\ h.shared /\ h.sess = sessCount
    THEN [h EXCEPT !.phrases = <<>>] ELSE h

\* The set mappedExcludes: every exclude, and the lower-cased phrase of every
\* key that equals an exclude.
mappedExcludesOf(allExcludes) ==
    { allExcludes[n] : n \in 1..Len(allExcludes) }
        \cup { toLowerCase(praiseKeyMap[i].phrase) :
                 i \in { i \in 1..Len(praiseKeyMap) :
                           \E n \in 1..Len(allExcludes) :
                             toLowerCase(praiseKeyMap[i].key) = allExcludes[n] } }

\* the filter comparing the phrase as written, not lower-cased
filterPhrases_caseSensitive(phrases, mappedExcludes) ==
    SelectSeq(phrases, LAMBDA p : p \notin mappedExcludes)

\* phrases.filter(p => !mappedExcludes.has(String(p).toLowerCase()))
filterPhrases(phrases, mappedExcludes) ==
    SelectSeq(phrases, LAMBDA p : toLowerCase(p) \notin mappedExcludes)

\* The exclude filter, applied when there is at least one exclude.
excludeFilter(phrases, allExcludes) ==
    IF Len(allExcludes) = 0 THEN phrases
    ELSE filterPhrases(phrases, mappedExcludesOf(allExcludes))

\* options.excludeKeys, options.excludeValues and options.exclude, each
\* entry lower-cased, concatenated.
allExcludesOf(options) ==
    LET low(list) == [n \in 1..Len(list) |-> toLowerCase(list[n])]
    IN  low(options.excludeKeys) \o low(options.excludeValues) \o low(options.exclude)

\* if (!phrases.length) phrases = Object.values(praiseKeyMap).slice()
orFullList(filtered) == IF Len(filtered) = 0 THEN praiseValues ELSE filtered

\* The phrases a shuffle draws from: the filtered table, or the whole table
\* when nothing is left.
shufflePhrases(options) ==
    orFullList(excludeFilter(praiseValues, allExcludesOf(options)))

\* One Fisher-Yates pass over the positions i = n, ..., 2 of p, the random
\* index drawn at position i being js[i] (in 1..i).
RECURSIVE FisherYates(_, _, _)
FisherYates(p, i, js) ==
    IF i < 2 THEN p
    ELSE FisherYates([p EXCEPT ![i] = p[js[i]], ![js[i]] = p[i]], i - 1, js)

\* The draws of one pass over n positions.
Draws(n) == { js \in [2..n -> 1..n] : \A i \in 2..n : js[i] <= i }

\* The orders in which the two passes can leave n positions 1..n.
OrdersOf(n) ==
    { FisherYates(FisherYates([i \in 1..n |-> i], n, a), n, b) :
        a \in Draws(n), b \in Draws(n) }

\* phrases.slice(0, total) for every shuffled order: the first total
\* positions of the orders, for total = 1, ..., m, as a tuple.
RECURSIVE SlicesUpTo(_, _)
SlicesUpTo(orders, m) ==
    IF m = 0 THEN <<>>
    ELSE Append(SlicesUpTo(orders, m - 1), { SubSeq(o, 1, m) : o \in orders })

\* SlicesUpTo(OrdersOf(n), n) for n = 1, ..., m, as a tuple.
RECURSIVE OrdersUpTo(_)
OrdersUpTo(m) ==
    IF m = 0 THEN <<>>
    ELSE Append(OrdersUpTo(m - 1), SlicesUpTo(OrdersOf(m), m))

\* ShuffleOrders[n][total]: what the two passes followed by slice(0, total)
\* can leave of n positions.
ShuffleOrders == OrdersUpTo(Len(praiseKeyMap))

\* the timers with the phrases taken from the end of the list
shuffleTimers_reversed(sess, list, interval) ==
    { [id |-> <<sess, k>>, delay |-> (k - 1) * interval, kind |-> "speak",
       txt |-> list[Len(list) + 1 - k]] : k \in 1..Len(list) }
      \cup { [id |-> <<sess, Len(list) + 1>>,
              delay |-> Len(list) * interval + CleanupSlackMs,
              kind |-> "cleanup", txt |-> <<>>] }

\* The timers playPraiseShuffle sets for the sequence sess: one per phrase
\* at i * interval, and the cleanup timer at total * interval + 100.
shuffleTimers(sess, list, interval) ==
    { [id |-> <<sess, k>>, delay |-> (k - 1) * interval, kind |-> "speak",
       txt |-> list[k]] : k \in 1..Len(list) }
      \cup { [id |-> <<sess, Len(list) + 1>>,
              delay |-> Len(list) * interval + CleanupSlackMs,
              kind |-> "cleanup", txt |-> <<>>] }

\* const total = count ? Math.min(count, phrases.length) : phrases.length
totalOf(count, n) == IF count.has THEN Min(count.v, n) ELSE n

\* The second half of playPraiseShuffle: the shuffled phrases are cut to
\* total, stored, and given their timers.
schedule(prior, sess, list, interval) ==
    /\ shuffle' = [timers |-> prior.shuffle.timers \o
                              [k \in 1..(Len(list) + 1) |-> <<sess, k>>],
                   running |-> TRUE,
                   lastShuffle |-> list]
    /\ pendingTimers' = prior.pending \cup shuffleTimers(sess, list, interval)
    /\ ret' = [kind |-> "handle", phrases |-> list]
    /\ sessCount' = sess
    /\ speech' = NoSpeech
    /\ speaking' = (speaking /\ ~prior.cancelSpeech)
    /\ held' = IF prior.cancelSpeech THEN lengthZero(held) ELSE held
    /\ cancelled' = Cardinality(pendingTimers \ prior.pending)

\* The first half: the two Fisher-Yates passes over the phrases and the cut
\* to total.
shuffleAndSchedule(prior, phrases, total, interval) ==
    \E order \in ShuffleOrders[Len(phrases)][total] :
        schedule(prior, sessCount + 1,
                 [k \in 1..total |-> phrases[order[k]]], interval)

\* a new shuffle that leaves the one in flight alone
stopIfRunning_skipped(sh, pend) ==
    [shuffle |-> sh, pending |-> pend, cancelSpeech |-> FALSE]

\* if (_praiseShuffleState.running) _praiseShuffleState.stop()
stopIfRunning(sh, pend) ==
    IF sh.running THEN stop(sh, pend)
    ELSE [shuffle |-> sh, pending |-> pend, cancelSpeech |-> FALSE]

\* const interval = (typeof options.interval === 'number') ? options.interval : 700
intervalOf(options) ==
    IF options.interval.has THEN options.interval.v ELSE DefaultIntervalMs

\* const count = (typeof options.count === 'number' && options.count > 0) ? options.count : null
countOf(options) ==
    IF options.count.has /\ options.count.v > 0 THEN options.count ELSE Absent

withPhrases(options, phrases) ==
    shuffleAndSchedule(stopIfRunning(shuffle, pendingTimers), phrases,
                       totalOf(countOf(options), Len(phrases)), intervalOf(options))

\* window.playPraiseShuffle = function(options){ ... }
playPraiseShuffle(options) ==
    /\ PraiseCall("playPraiseShuffle", <<options>>)
    /\ IF audio.muted
       THEN /\ ret' = Undefined
            /\ speech' = NoSpeech
            /\ UNCHANGED speaking
            /\ NoTimerChange
       ELSE /\ sessCount < MaxShuffles
            /\ withPhrases(options, shufflePhrases(options))

\* window.stopPraiseShuffle = function(){ ... }
stopPraiseShuffle ==
    /\ PraiseCall("stopPraiseShuffle", <<>>)
    /\ LET r == stop(shuffle, pendingTimers)
       IN  /\ shuffle' = r.shuffle
           /\ pendingTimers' = r.pending
           /\ speaking' = (speaking /\ ~r.cancelSpeech)
           /\ cancelled' = Cardinality(pendingTimers \ r.pending)
    /\ held' = lengthZero(held)
    /\ ret' = Undefined
    /\ speech' = NoSpeech
    /\ UNCHANGED sessCount

\* phrases: _praiseShuffleState.lastShuffle.slice(): the handle's list is a
\* copy of the list of the sequence sess.
handleOf(r, sess) ==
    [has |-> TRUE, sess |-> sess, phrases |-> r.phrases, shared |-> FALSE]

\* The caller keeps the handle the call has just returned.
KeepHandle ==
    /\ phase = "ready"
    /\ lastEvent.op = "playPraiseShuffle"
    /\ ret.kind = "handle"
    /\ ~held.has
    /\ held' = handleOf(ret, sessCount)
    /\ speech' = NoSpeech
    /\ cancelled' = 0
    /\ lastEvent' = Event("keep-handle", <<>>)
    /\ mutePre' = <<None, None>>
    /\ UNCHANGED <<ctrlVars, roundTrip, synth, shuffle, pendingTimers, sessCount,
                   ret, speaking>>

\* a handle whose stop() ends only the sequence it was returned for
handleStop_ownSequence(h, sh, pend) ==
    IF h.sess = sessCount THEN stop(sh, pend)
    ELSE [shuffle |-> sh, pending |-> pend, cancelSpeech |-> FALSE]

\* stop: () => { _praiseShuffleState.stop(); }
handleStop(h, sh, pend) == stop(sh, pend)

\* The caller calls stop() of the handle it has kept.
HandleStop ==
    /\ held.has
    /\ PraiseCall("handle.stop", <<>>)
    /\ LET r == handleStop(held, shuffle, pendingTimers)
       IN  /\ shuffle' = r.shuffle
           /\ pendingTimers' = r.pending
           /\ speaking' = (speaking /\ ~r.cancelSpeech)
           /\ cancelled' = Cardinality(pendingTimers \ r.pending)
    /\ held' = lengthZero(held)
    /\ ret' = Undefined
    /\ speech' = NoSpeech
    /\ UNCHANGED sessCount

\* setTimeout clamps a negative delay to 0.
EffectiveDelay(t) == Max(0, t.delay)

\* Timers set by one call run in the order of their delays and, for equal
\* delays, in the order in which they were set.
Precedes(t, u) ==
    /\ t.id[1] = u.id[1]
    /\ \/ EffectiveDelay(t) < EffectiveDelay(u)
       \/ EffectiveDelay(t) = EffectiveDelay(u) /\ t.id[2] < u.id[2]

\* the callback without the test of audio.muted
timerCallback_ignoresMute(t) == speakPhrase(t.txt, t.id[1])

\* The callback of a speech timer: if (!audio.muted) _speakPhrase(txt)
timerCallback(t) ==
    IF ~audio.muted THEN speakPhrase(t.txt, t.id[1]) ELSE NoSpeech

\* A pending timer of the shuffle comes due and its callback runs.
TimerFire(t) ==
    /\ phase = "ready"
    /\ t \in pendingTimers
    /\ \A u \in pendingTimers : ~Precedes(u, t)
    /\ pendingTimers' = pendingTimers \ {t}
    /\ IF t.kind = "speak"
       THEN /\ speech' = timerCallback(t)
            /\ UNCHANGED shuffle
       ELSE /\ speech' = NoSpeech
            /\ shuffle' = [shuffle EXCEPT !.running = FALSE, !.timers = <<>>]
    /\ Spoke
    /\ lastEvent' = Event("timer", <<t.kind>>)
    /\ mutePre' = <<None, None>>
    /\ cancelled' = 0
    /\ UNCHANGED <<ctrlVars, roundTrip, synth, sessCount, ret, held>>


\* The utterance in progress comes to its end.
UtteranceEnd ==
    /\ phase = "ready"
    /\ speaking
    /\ speaking' = FALSE
    /\ speech' = NoSpeech
    /\ cancelled' = 0
    /\ lastEvent' = Event("utterance-end", <<>>)
    /\ mutePre' = <<None, None>>
    /\ UNCHANGED <<ctrlVars, roundTrip, synth, shuffle, pendingTimers, sessCount,
                   ret, held>>
(***************************************************************************)
(* Arguments of the praise calls                                           *)
(***************************************************************************)
Padded(s) == <<" ">> \o s \o <<" ">>

\* s with every space doubled
RECURSIVE DoubledSpaces(_)
DoubledSpaces(s) ==
    IF Len(s) = 0 THEN <<>>
    ELSE (IF IsSpace(Head(s)) THEN <<Head(s), Head(s)>> ELSE <<Head(s)>>)
             \o DoubledSpaces(Tail(s))

\* s with a space put after its fourth character
Spaced(s) ==
    IF Len(s) > 4 THEN SubSeq(s, 1, 4) \o <<" ">> \o SubSeq(s, 5, Len(s)) ELSE s

\* Spellings of a key that differ from it in letter case and white space only.
KeyVariants(k) ==
    { k, toUpperCase(k), Padded(k), replaceSpaces(k),
      DoubledSpaces(toUpperCase(k)), Spaced(k) }

\* A text that is no key.
FreeText == <<"B","r","a","v","o","!">>

\* The arguments of playPraise and playPraiseKey: none (the empty sequence),
\* the spellings of every key, and a free text.
PraiseArgs ==
    {<<>>, FreeText} \cup UNION { KeyVariants(getPraiseKeys[i]) : i \in 1..Len(getPraiseKeys) }

\* A few arguments for the direct calls made between the steps of a shuffle.
FewPraiseArgs == {praiseKeyMap[1].key}

NoOptions ==
    [interval |-> Absent, count |-> Absent,
     excludeKeys |-> <<>>, excludeValues |-> <<>>, exclude |-> <<>>]

\* The options of playPraiseShuffle: calls with and without interval and
\* count, with exclude lists under each of the three option names, with
\* entries that are keys, keys in upper case, padded keys, phrase texts and
\* phrase texts in upper case, and with every key excluded.
ShuffleOptions ==
    { [NoOptions EXCEPT !.count = Some(2)],
      [NoOptions EXCEPT !.interval = Some(0), !.count = Some(1)],
      [NoOptions EXCEPT !.excludeKeys = <<praiseKeyMap[1].key, praiseKeyMap[2].key>>],
      [NoOptions EXCEPT !.exclude = <<praiseKeyMap[1].key>>,
                        !.interval = Some(0), !.count = Some(2)],
      [NoOptions EXCEPT !.excludeKeys = getPraiseKeys, !.count = Some(2)],
      [NoOptions EXCEPT !.excludeValues = <<praiseKeyMap[3].phrase,
                                            toUpperCase(praiseKeyMap[4].phrase)>>,
                        !.excludeKeys = <<toUpperCase(praiseKeyMap[2].key),
                                          Padded(praiseKeyMap[1].key)>>,
                        !.count = Some(0)] }

\* The options of the calls whose handles the caller keeps: two phrases at
\* the default interval, and one phrase at once.
HandleOptions ==
    { [NoOptions EXCEPT !.count = Some(2)],
      [NoOptions EXCEPT !.interval = Some(0), !.count = Some(1)] }

(***************************************************************************)
(* The earlier controller script (src/unnamed/part_000): muted autoplay,   *)
(* a toggle button that opens the panel, no persistence of the playback    *)
(* state and no praise API.  Its element references are const bindings.    *)
(***************************************************************************)
\* Lines 15-59: when one of the five elements is missing the control is
\* created and appended, and the first of the assignments that rebind the
\* const references (controlRoot = root) throws a TypeError.
legacyRebindThrows(p) == p.controls # "all"

\* const playOnInteraction = () => { ... }
legacyPlayOnInteraction(s) ==
    LET s1 == [s EXCEPT !.armed = FALSE]
    IN  IF ~savedMuted
        THEN [play(setMuted(s1, FALSE)) EXCEPT !.text = "Mute"]
        ELSE s1

\* The document's click listeners of the earlier script in registration
\* order.
legacyDocumentClick(s, inside) ==
    clickOutside(IF s.armed THEN legacyPlayOnInteraction(s) ELSE s, inside)

\* toggleBtn.addEventListener('click', ...): the class 'open' is toggled,
\* the panel follows it, and playback is requested.
legacyToggleBtnClick(s) == play(setOpen(s, ~s.panel.open))

\* volSlider.addEventListener('input', ...)
legacyVolSliderInput(s, value) ==
    LET v == parseFloat(value)
    IN  IF ~VolumeAccepted(v) THEN s
        ELSE IF ~StorageWritable
        THEN [setMuted(setVolume(s, v.v), FALSE) EXCEPT !.text = "Mute"]
        ELSE [setMuted(setVolume(s, v.v), FALSE)
                  EXCEPT !.text = "Mute",
                         !.ls.vol = NumberToString(v.v),
                         !.ls.muted = STR_false]

\* muteBtn.addEventListener('click', ...)
legacyMuteBtnClick(s) ==
    LET m  == ~s.audio.muted
        s1 == [setMuted(s, m) EXCEPT !.text = MuteLabel(m)]
        s2 == setMutedItem(s1, BooleanToString(m))
    IN  IF ~StorageWritable THEN s1
        ELSE IF ~m THEN play(s2) ELSE s2

\* The earlier script runs from its first line: it returns when there is
\* no #bg-audio, throws where it rebinds its references or assigns a
\* rejected volume, and otherwise runs to its end with the muted playback
\* request pending.
LegacyLoad ==
    /\ phase = "unloaded"
    /\ script = "part_000"
    /\ LET vol == restoredVolume(parseFloat(localStorage.vol))
           sm  == localStorage.muted = STR_true
           s0  == [setMuted(setVolume(St, vol.v), TRUE)
                       EXCEPT !.text = MuteLabel(sm), !.armed = TRUE]
       IN  IF page.standIn
           THEN /\ phase' = "absent"
                /\ lastEvent' = Event("load", <<"returned">>)
                /\ UNCHANGED <<bound, audio, localStorage, savedMuted, muteBtnText,
                               toggleOpacity, panel, autoplay, armed,
                               volumeChange>>
           ELSE IF legacyRebindThrows(page) \/ ~StorageReadable
                   \/ ~VolumeAccepted(vol)
           THEN /\ phase' = "crashed"
                /\ lastEvent' = Event("load", <<"threw">>)
                /\ UNCHANGED <<bound, audio, localStorage, savedMuted, muteBtnText,
                               toggleOpacity, panel, autoplay, armed,
                               volumeChange>>
           ELSE /\ phase' = "legacy"
                /\ bound' = "page"
                /\ savedMuted' = sm
                /\ Commit(updateToggleOpacity(s0))
                /\ autoplay' = "legacy-try"
                /\ lastEvent' = Event("load", <<>>)
    /\ mutePre' = <<None, None>>
    /\ UNCHANGED <<page, script, sessionStorage, savedTime, metaListener,
                   persistInterval, roundTrip, praiseVars>>

LegacyStep(op, arg, s) ==
    /\ phase = "legacy"
    /\ Commit(s)
    /\ lastEvent' = Event(op, arg)
    /\ mutePre' = <<None, None>>
    /\ UNCHANGED <<page, script, bound, phase, sessionStorage, savedMuted,
                   savedTime, metaListener, persistInterval, roundTrip,
                   praiseVars>>

\* The muted playback request succeeded: the label is set from savedMuted.
LegacyPlayResolve ==
    /\ autoplay = "legacy-try"
    /\ autoplay' = "legacy-muted"
    /\ LegacyStep("play-resolved", <<>>,
                  [St EXCEPT !.text = MuteLabel(savedMuted),
                             !.audio.paused = FALSE])

\* The request was rejected: only a warning is logged.
LegacyPlayReject ==
    /\ autoplay = "legacy-try"
    /\ autoplay' = "legacy-failed"
    /\ LegacyStep("play-rejected", <<>>, St)

LegacySliderInput(value) ==
    /\ LegacyStep("slider", value, legacyVolSliderInput(St, value))
    /\ UNCHANGED autoplay

LegacyMuteBtnClick ==
    /\ LegacyStep("muteBtn", <<>>, legacyDocumentClick(legacyMuteBtnClick(St), TRUE))
    /\ UNCHANGED autoplay

LegacyToggleBtnClick ==
    /\ LegacyStep("toggleBtn", <<>>,
                  legacyDocumentClick(legacyToggleBtnClick(St), TRUE))
    /\ UNCHANGED autoplay

LegacyDocumentClick ==
    /\ LegacyStep("click", <<>>, legacyDocumentClick(St, FALSE))
    /\ UNCHANGED autoplay

LegacyKeyDown ==
    /\ LegacyStep("keydown", <<>>,
                  IF armed THEN legacyPlayOnInteraction(St) ELSE St)
    /\ UNCHANGED autoplay

\* The document of the earlier script is left and loaded again: only the
\* storages are kept.
LegacyUnload ==
    /\ script = "part_000"
    /\ phase \in {"legacy", "crashed", "absent"}
    /\ phase' = "unloaded"
    /\ bound' = "none"
    /\ audio' \in {NewAudio(rs) : rs \in ReadyStates(page)}
    /\ savedMuted' = FALSE
    /\ muteBtnText' = "Mute"
    /\ toggleOpacity' = "1"
    /\ panel' = NewPanel(page)
    /\ autoplay' = "idle"
    /\ armed' = FALSE
    /\ volumeChange' = FALSE
    /\ lastEvent' = Event("unload", <<>>)
    /\ mutePre' = <<None, None>>
    /\ UNCHANGED <<page, script, localStorage, sessionStorage, savedTime,
                   metaListener, persistInterval, roundTrip, praiseVars>>
(***************************************************************************)
(* Claims about the controller (checked under Spec)                        *)
(***************************************************************************)
\* The last step was an input event of the slider with a value in [0,1].
SliderRan ==
    lastEvent.op = "slider" /\ VolumeAccepted(parseFloat(lastEvent.arg))

\* C1: after the volume slider's input handler ran with a value v in [0,1],
\* the audio volume is v, the stored webapex-audio-volume reads back as v,
\* the audio is not muted and the stored webapex-audio-muted is "false".
C1_SliderSetsVolumeAndUnmutes ==
    SliderRan =>
        LET v == parseFloat(lastEvent.arg)
        IN  /\ audio.volume = v.v
            /\ parseFloat(localStorage.vol) = v
            /\ ~audio.muted
            /\ localStorage.muted = STR_false

\* C1 witness: the slider was moved to 0.7 after the autoplay routine had
\* fallen back to muted playback, and the audio is unmuted at volume 0.7.
C1_Witness ==
    /\ lastEvent.op = "slider"
    /\ lastEvent.arg = <<"0", ".", "7">>
    /\ autoplay \in {"muted", "stopped"}
    /\ audio.volume = 70
    /\ ~audio.muted

\* C2: after two presses of the mute button in succession the stored
\* webapex-audio-muted is what it was before the first press.
C2_TwoPressesRestoreStoredMute ==
    mutePre[2] # None => localStorage.muted = mutePre[2]

\* C3: after the mute button or the toggle button set mute to true and the
\* page was loaded again, the stored webapex-audio-muted is still "true",
\* whatever the autoplay routine's outcome.
C3_StoredMuteSurvivesReload ==
    roundTrip = "reloaded" => localStorage.muted = STR_true

\* The last step ran setTime (in the initialization pass or on
\* 'loadedmetadata').
PositionRestored ==
    lastEvent.op \in {"load", "loadedmetadata"} /\ lastEvent.arg = <<"setTime">>

\* The statement of C7 with "exceeds" read strictly: the applied position is d - 0.1 (not below 0) when the
\* saved position s exceeds the duration d and s otherwise, and is never
\* greater than d.
C7_AsStated ==
    PositionRestored =>
        LET s == savedTime.v
            d == page.duration
        IN  /\ audio.currentTime = IF s > d THEN Max(0, d - ClampMargin) ELSE s
            /\ audio.currentTime <= d

\* C7: the applied position is d - 0.1 (not below 0) when the saved
\* position s is greater than or equal to the duration d, and s otherwise;
\* it is never greater than d.
C7_PositionRestore ==
    PositionRestored =>
        LET s == savedTime.v
            d == page.duration
        IN  /\ audio.currentTime = IF s >= d THEN Max(0, d - ClampMargin) ELSE s
            /\ audio.currentTime <= d

\* C7 witness: a saved position of 50 with a duration of 40 was applied as
\* 39.9.
C7_Witness ==
    /\ PositionRestored
    /\ savedTime = Num(5000)
    /\ page.duration = 4000
    /\ audio.currentTime = 3990

\* The stored volume is absent or invalid: not a number, negative, above 1.
StoredVolumeInvalid ==
    LET sv == parseFloat(localStorage.vol)
    IN  isNaN(sv) \/ sv.v < 0 \/ sv.v > 100

\* C8: the audio volume is within [0,1] in every state, and after the
\* restore at load an absent or invalid stored volume has given 0.6.
C8_VolumeInRangeWithDefault ==
    /\ audio.volume >= 0 /\ audio.volume <= 100
    /\ (lastEvent.op = "load" /\ StoredVolumeInvalid)
           => audio.volume = DefaultVolume

\* C9: once the initialization pass has run, the mute button's label is
\* 'Muted' exactly when the audio is muted.
C9_LabelMirrorsMuteFlag ==
    phase = "ready" => ((muteBtnText = "Muted") <=> audio.muted)


(***************************************************************************)
(* Claims about the praise functions (checked under SpecPraise and         *)
(* SpecShuffle)                                                            *)
(***************************************************************************)
\* C4: at most one shuffle sequence is active: every pending timer belongs
\* to the sequence started last and that sequence is the running one, so a
\* phrase spoken by a timer is a phrase of the sequence started last and no
\* phrase of a sequence replaced by a new call is spoken after that call.
C4_OneShuffleSession ==
    /\ \A t \in pendingTimers : t.id[1] = sessCount
    /\ pendingTimers # {} => shuffle.running
    /\ (lastEvent.op = "timer" /\ speech # NoSpeech)
           => speech[1].sess = sessCount

\* C4 witness: playPraiseShuffle was called while the first sequence had at
\* least two timers pending; they were cleared and the timers now pending
\* are those of the second sequence.
C4_Witness ==
    /\ lastEvent.op = "playPraiseShuffle"
    /\ ret.kind = "handle"
    /\ sessCount = 2
    /\ cancelled >= 2
    /\ pendingTimers # {}
    /\ \A t \in pendingTimers : t.id[1] = 2

\* A string in lower case without its white space.
Squash(s) == replaceSpaces(toLowerCase(s))

\* The request playPraise issues for the phrase of the i-th table entry.
MappedSpeech(i) ==
    <<[kind |-> "speech", txt |-> praiseKeyMap[i].phrase, sess |-> 0,
       whileMuted |-> FALSE]>>

\* C5: playPraise called (not muted, speech synthesis available) with an
\* argument that equals a table key up to letter case and white space speaks
\* the phrase mapped to that key.
C5_KeyResolutionIgnoresCaseAndSpace ==
    (lastEvent.op = "playPraise" /\ ~audio.muted /\ synth = "speech")
        => \A i \in 1..Len(praiseKeyMap) :
               Squash(lastEvent.arg) = Squash(praiseKeyMap[i].key)
                   => speech = MappedSpeech(i)

\* C6: no speech or tone request is issued while the audio is muted: a
\* praise function called while muted issues nothing and returns no value,
\* and a shuffle timer that fires while muted speaks nothing.
C6_NoSpeechWhileMuted ==
    /\ \A n \in 1..Len(speech) : ~speech[n].whileMuted
    /\ (audio.muted /\ lastEvent.op \in {"playPraise", "playPraiseKey", "playPraiseShuffle"})
           => (speech = NoSpeech /\ ret = Undefined)
    /\ (audio.muted /\ lastEvent.op = "timer") => speech = NoSpeech

\* C6 witness: a speech timer of a shuffle fired after the audio had been
\* muted, with timers of the sequence still pending, and nothing was spoken.
C6_Witness ==
    /\ lastEvent.op = "timer"
    /\ lastEvent.arg = <<"speak">>
    /\ audio.muted
    /\ speech = NoSpeech
    /\ pendingTimers # {}

\* The last step was a call of playPraiseShuffle that returned its handle.
ShuffleReturned == lastEvent.op = "playPraiseShuffle" /\ ret.kind = "handle"

\* The entries of the three exclude lists of the options.
ExcludeEntries(options) ==
    { options.excludeKeys[n] : n \in 1..Len(options.excludeKeys) }
        \cup { options.excludeValues[n] : n \in 1..Len(options.excludeValues) }
        \cup { options.exclude[n] : n \in 1..Len(options.exclude) }

\* The i-th table entry is excluded: an entry of the exclude lists is its
\* key or its phrase, letter case aside.
Excluded(options, i) ==
    \E e \in ExcludeEntries(options) :
        \/ toLowerCase(e) = toLowerCase(praiseKeyMap[i].key)
        \/ toLowerCase(e) = toLowerCase(praiseKeyMap[i].phrase)

\* The phrases of the list the last call returned.
Listed == { ret.phrases[k] : k \in 1..Len(ret.phrases) }

TablePhrases == { praiseKeyMap[i].phrase : i \in 1..Len(praiseKeyMap) }

\* The table entries that are not excluded.
Kept(options) == { i \in 1..Len(praiseKeyMap) : ~Excluded(options, i) }

\* C10: the list playPraiseShuffle returns holds distinct phrases of the
\* table, none of them the phrase of an excluded key or an excluded text
\* (letter case aside), as many as the count allows; unless every phrase is
\* excluded: then the list is drawn from the whole table.
C10_ShuffleExclusion ==
    ShuffleReturned =>
        /\ Listed \subseteq TablePhrases
        /\ Len(ret.phrases) = Cardinality(Listed)
        /\ IF Kept(lastEvent.arg[1]) = {}
           THEN Len(ret.phrases) =
                    totalOf(countOf(lastEvent.arg[1]), Len(praiseKeyMap))
           ELSE /\ \A i \in 1..Len(praiseKeyMap) :
                       Excluded(lastEvent.arg[1], i)
                           => praiseKeyMap[i].phrase \notin Listed
                /\ Len(ret.phrases) =
                       totalOf(countOf(lastEvent.arg[1]),
                               Cardinality(Kept(lastEvent.arg[1])))

\* C10 witness: a shuffle excluding the first key of the table ("amazing")
\* returned two phrases, neither of them the phrase of that key.
C10_Witness ==
    /\ ShuffleReturned
    /\ lastEvent.arg[1].exclude = <<praiseKeyMap[1].key>>
    /\ Len(ret.phrases) = 2
    /\ praiseKeyMap[1].phrase \notin Listed

\* The phrases left to a shuffle with these options: those of the entries
\* not excluded, or of the whole table when every entry is excluded.
Available(options) ==
    IF Kept(options) = {} THEN Len(praiseKeyMap)
    ELSE Cardinality(Kept(options))

\* The positions in the list of the speech timers still pending.
SpeakPending == { t.id[2] : t \in { u \in pendingTimers : u.kind = "speak" } }

\* The position in the list of the next phrase to be spoken.
NextIndex ==
    IF SpeakPending = {} THEN Len(shuffle.lastShuffle) + 1
    ELSE CHOOSE k \in SpeakPending : \A j \in SpeakPending : k <= j

\* C11: the list in the handle playPraiseShuffle returns is a
\* duplicate-free selection of table phrases, as long as the smaller of a
\* positive count and the number of available phrases (that number without
\* such a count); its k-th phrase (k = 0, 1, ...) is given a timer at
\* k * interval (700 ms by default); the timers speak the phrases in the
\* order of the list, each once: the phrases not yet spoken are always the
\* rest of the list, and a timer speaks the phrase before that rest.
C11_ListAndSchedule ==
    /\ ShuffleReturned =>
          /\ Listed \subseteq TablePhrases
          /\ Len(ret.phrases) = Cardinality(Listed)
          /\ Len(ret.phrases) =
                IF lastEvent.arg[1].count.has /\ lastEvent.arg[1].count.v > 0
                THEN Min(lastEvent.arg[1].count.v, Available(lastEvent.arg[1]))
                ELSE Available(lastEvent.arg[1])
          /\ { t \in pendingTimers : t.kind = "speak" } =
                { [id |-> <<sessCount, k>>,
                   delay |-> (k - 1) * (IF lastEvent.arg[1].interval.has
                                        THEN lastEvent.arg[1].interval.v
                                        ELSE DefaultIntervalMs),
                   kind |-> "speak",
                   txt |-> ret.phrases[k]] : k \in 1..Len(ret.phrases) }
    /\ shuffle.running =>
          /\ SpeakPending = NextIndex..Len(shuffle.lastShuffle)
          /\ \A t \in pendingTimers :
                t.kind = "speak" => t.txt = shuffle.lastShuffle[t.id[2]]
    /\ (lastEvent.op = "timer" /\ speech # NoSpeech /\ synth = "speech")
          => speech[1].txt = shuffle.lastShuffle[NextIndex - 1]

\* C11 witness: the timers of a list of three phrases have spoken the first
\* and now the second phrase; the third is pending.
C11_Witness ==
    /\ lastEvent.op = "timer"
    /\ speech # NoSpeech
    /\ synth = "speech"
    /\ Len(shuffle.lastShuffle) = 3
    /\ SpeakPending = {3}
    /\ speech[1].txt = shuffle.lastShuffle[2]

\* The last step was a call of stopPraiseShuffle (or of the stop() of a
\* handle, which runs the same _praiseShuffleState.stop()).
Stopped == lastEvent.op = "stopPraiseShuffle"

\* C12: after stopPraiseShuffle no shuffle timer is pending, the session is
\* not running and no utterance is in progress; a session that is not
\* running has no timer left, a timer speaks only for the running session,
\* and only a new call of playPraiseShuffle (a new session) sets running
\* again, so no phrase of the stopped shuffle is spoken later; the call
\* changes nothing of the controller, and no timer when no shuffle runs.
C12_StopEndsShuffle ==
    /\ [](Stopped => /\ pendingTimers = {}
                     /\ ~shuffle.running
                     /\ ~speaking
                     /\ speech = NoSpeech)
    /\ [](~shuffle.running => pendingTimers = {})
    /\ [][(lastEvent'.op = "timer" /\ speech' # NoSpeech)
              => (shuffle.running /\ speech'[1].sess = sessCount)]_vars
    /\ [][(~shuffle.running /\ shuffle'.running)
              => sessCount' = sessCount + 1]_vars
    /\ [][lastEvent'.op = "stopPraiseShuffle"
              => /\ UNCHANGED <<ctrlVars, sessCount, synth>>
                 /\ ~shuffle.running => UNCHANGED pendingTimers]_vars

\* C12 witness: stopPraiseShuffle was called in the middle of a shuffle: it
\* cleared at least two pending timers, and nothing is pending, running or
\* being spoken.
C12_Witness ==
    /\ Stopped
    /\ cancelled >= 2
    /\ sessCount >= 1
    /\ pendingTimers = {}
    /\ ~shuffle.running
    /\ ~speaking

\* The volume assignment of the initialization pass is accepted.
StoredVolumeAccepted ==
    VolumeAccepted(restoredVolume(parseFloat(localStorage.vol)))

\* C13: when the document has the audio element but not all five control
\* elements, the initialization pass of either script runs to its end with
\* its handlers attached to controls.
C13_InitCompletesWithSynthesizedControls ==
    (lastEvent.op = "load" /\ ~page.standIn /\ page.controls # "all"
       /\ StoredVolumeAccepted)
        => (phase \in {"ready", "legacy"} /\ bound # "none")

\* C14: with a storage that throws, the initialization pass still runs to
\* its end (and so defines the praise API); a click on the mute button or
\* the toggle button that unmutes a media element leaves it playing; and an
\* unmuted playback request that succeeds resolves the routine as unmuted,
\* with the audio not muted.
C14_StorageFailureIgnored ==
    /\ (lastEvent.op = "load" /\ StoredVolumeAccepted) => phase = "ready"
    /\ (lastEvent.op \in {"muteBtn", "toggleBtn"} /\ lastEvent.arg = <<"unmute">>
          /\ ~page.standIn) => ~audio.paused
    /\ lastEvent.op = "play1-resolved" => autoplay = "unmuted"

\* The steps taken by the user.
UserOps == {"slider", "muteBtn", "toggleBtn", "click", "keydown"}

\* C15: the autoplay routine requests playback at most twice.  The first
\* request is made at load with the audio not muted; the second is made
\* with the audio muted, and only in the step in which the first is
\* rejected; once the routine has resolved (unmuted, muted, or stopped after
\* the second rejection) it requests nothing more while the page stays, and
\* after "stopped" only a step of the user starts playback.
C15_AutoplayStaging ==
    /\ [][(autoplay = "idle" /\ autoplay' # "idle")
              => /\ lastEvent'.op = "load"
                 /\ autoplay' \in {"try1", "unmuted"}
                 /\ ~audio'.muted]_vars
    /\ [][(autoplay # "try2" /\ autoplay' = "try2")
              => /\ autoplay = "try1"
                 /\ lastEvent'.op = "play1-rejected"
                 /\ audio'.muted]_vars
    /\ [][(autoplay = "try1" /\ autoplay' # "try1")
              => autoplay' \in {"unmuted", "try2", "idle"}]_vars
    /\ [][(autoplay = "try2" /\ autoplay' # "try2")
              => autoplay' \in {"muted", "stopped", "idle"}]_vars
    /\ [][(autoplay \in {"unmuted", "muted", "stopped"} /\ autoplay' # autoplay)
              => (autoplay' = "idle" /\ lastEvent'.op = "unload")]_vars
    /\ [][(autoplay = "stopped" /\ autoplay' = "stopped"
             /\ audio.paused /\ ~audio'.paused)
              => lastEvent'.op \in UserOps]_vars
    /\ [](lastEvent.op = "play2-rejected" => autoplay = "stopped")

\* C15 witness: both requests were rejected before any click or key press:
\* the routine is stopped with the audio muted and paused.
C15_Witness ==
    /\ lastEvent.op = "play2-rejected"
    /\ autoplay = "stopped"
    /\ armed
    /\ audio.muted
    /\ audio.paused

\* C16: when a playback request of the autoplay routine resolves, the label
\* and the stored webapex-audio-muted written by its callback agree with
\* audio.muted, whatever the user did while the request was pending.
C16_ResolutionConsistent ==
    lastEvent.op \in {"play1-resolved", "play2-resolved"}
        => /\ (muteBtnText = "Muted") <=> audio.muted
           /\ localStorage.muted = BooleanToString(audio.muted)

\* C17: with a saved position on a document that has the media element, a
\* playback request of the autoplay routine has been made only if the saved
\* position has been applied (setTime is not left waiting for metadata).
C17_SeekBeforeFirstRequest ==
    (phase = "ready" /\ ~page.standIn /\ ~isNaN(savedTime) /\ autoplay # "idle")
        => ~metaListener

\* The gestures playOnInteraction listens for, as they reach the document.
Gestures == {"click", "keydown", "muteBtn", "toggleBtn"}

\* C18: playOnInteraction runs with the first click or key press and not
\* again while the page stays: the gesture removes it, and only a load
\* registers it.  When the restored preference was not muted the audio is
\* then not muted, playback was requested, "false" is stored and the label
\* is 'Mute'; when it was muted, a click outside the control or a key press
\* leaves the audio, the label and the stored values as they were, as does
\* every later one.
C18_FirstGestureOnce ==
    /\ [][(armed /\ lastEvent'.op \in Gestures) => ~armed']_vars
    /\ [][(~armed /\ armed') => lastEvent'.op = "load"]_vars
    /\ [][(armed /\ lastEvent'.op \in Gestures /\ ~savedMuted)
              => /\ ~audio'.muted
                 /\ ~page.standIn => ~audio'.paused
                 /\ localStorage'.muted = STR_false
                 /\ muteBtnText' = "Mute"]_vars
    /\ [][(lastEvent'.op \in {"click", "keydown"} /\ (savedMuted \/ ~armed))
              => UNCHANGED <<audio, muteBtnText, localStorage>>]_vars

\* C18 witness: after both autoplay requests were rejected, a key press was
\* the first gesture: the audio is unmuted and playing, "false" is stored.
C18_Witness ==
    /\ lastEvent.op = "keydown"
    /\ autoplay = "stopped"
    /\ ~savedMuted
    /\ ~armed
    /\ ~audio.muted
    /\ ~audio.paused
    /\ localStorage.muted = STR_false
    /\ muteBtnText = "Mute"

\* C19: a click on the toggle button, once all its listeners have run:
\* with the panel open it closes the panel and leaves audio.muted and the
\* stored webapex-audio-muted as they were; with the panel closed it
\* negates audio.muted, stores the new flag, and requests playback when the
\* audio is now unmuted.
C19_ToggleClick ==
    [][lastEvent'.op = "toggleBtn"
          => IF panel.open
             THEN /\ ~panel'.open
                  /\ audio'.muted = audio.muted
                  /\ localStorage'.muted = localStorage.muted
             ELSE /\ audio'.muted = ~audio.muted
                  /\ localStorage'.muted = BooleanToString(audio'.muted)
                  /\ (~audio'.muted /\ ~page.standIn) => ~audio'.paused]_vars

\* C20: every write of the session storage stores the current playback time
\* and 'playing' equal to (not paused and not muted) at that moment; each
\* tick of the interval timer, each transition to hidden and the teardown
\* write; once the teardown ran, the interval timer is cancelled and no
\* tick writes any more.
PersistOps == {"persist", "hidden", "beforeunload"}

C20_PersistenceLoop ==
    /\ [][(sessionStorage' # sessionStorage) => lastEvent'.op \in PersistOps]_vars
    /\ [][(lastEvent'.op \in PersistOps)
            => /\ parseFloat(sessionStorage'.time) = Num(audio.currentTime)
               /\ sessionStorage'.playing
                      = BooleanToString(~audio.paused /\ ~audio.muted)]_vars
    /\ [][(lastEvent'.op = "beforeunload") => ~persistInterval']_vars
    /\ [][(lastEvent'.op = "persist") => phase = "ready"]_vars
    /\ [](phase \in {"leaving", "unloaded"} => ~persistInterval)

C20_Witness ==
    /\ phase = "leaving"
    /\ lastEvent.op = "beforeunload"
    /\ ~persistInterval
    /\ audio.currentTime > 0
    /\ sessionStorage.time = NumberToString(audio.currentTime)
    /\ sessionStorage.playing = STR_true


\* C21: once an event and the 'volumechange' notification it caused have
\* been processed, the opacity of the toggle button is 0.6 exactly when the
\* audio is muted and 1 otherwise, with the page's audio element and with
\* the stand-in.
OpacityOf(m) == IF m THEN "0.6" ELSE "1"

C21_OpacityReflectsMute ==
    (phase = "ready" /\ ~volumeChange) => toggleOpacity = OpacityOf(audio.muted)

\* C21 for the page's own audio element only
C21_OpacityWithPageAudio ==
    (phase = "ready" /\ ~page.standIn /\ ~volumeChange)
        => toggleOpacity = OpacityOf(audio.muted)

\* C22: stop() of a handle kept from an earlier call, called after a later
\* call superseded that shuffle, ends the shuffle in flight: its pending
\* timers are cleared, the utterance is cancelled and no phrase of it is
\* spoken afterwards; the phrase list of a handle never changes.
Superseded == held.has /\ held.sess < sessCount

C22_StaleHandleStopsCurrent ==
    /\ [][(lastEvent'.op = "handle.stop" /\ Superseded)
            => /\ pendingTimers' = {}
               /\ cancelled' = Cardinality(pendingTimers)
               /\ ~shuffle'.running
               /\ ~speaking']_vars
    /\ [][(speech' # NoSpeech /\ speech'[1].sess > 0
              /\ (speech' # speech \/ lastEvent'.op = "timer"))
            => \E t \in pendingTimers \ pendingTimers' :
                   t.kind = "speak" /\ t.id[1] = speech'[1].sess]_vars
    /\ [][(held.has /\ lastEvent'.op # "unload")
            => held'.phrases = held.phrases]_vars
    /\ [](held.has => Len(held.phrases) > 0)
    /\ []((lastEvent.op = "keep-handle") => held.phrases = ret.phrases)

C22_Witness ==
    /\ lastEvent.op = "handle.stop"
    /\ Superseded
    /\ cancelled > 1
    /\ pendingTimers = {}
    /\ Len(held.phrases) > 0

\* C23: in the praise-enabled controller nothing opens the panel: a closed
\* panel stays closed under every event of the loaded page, every change of
\* the panel closes it, and after a change the class, aria-hidden (the
\* inverse of open) and the display agree.
ClosedPanel == [open |-> FALSE, ariaHidden |-> STR_true, display |-> "none"]

C23_PanelNeverOpens ==
    /\ [][(~panel.open /\ lastEvent'.op # "unload") => ~panel'.open]_vars
    /\ [][(panel' # panel /\ lastEvent'.op # "unload")
            => (panel.open /\ panel' = ClosedPanel
                /\ lastEvent'.op \in {"toggleBtn", "click"})]_vars
    /\ [][(panel'.open # panel.open)
            => /\ panel'.ariaHidden = BooleanToString(~panel'.open)
               /\ panel'.display = (IF panel'.open THEN "flex" ELSE "none")]_vars

C23_Witness ==
    /\ phase = "ready"
    /\ page.open
    /\ lastEvent.op = "toggleBtn"
    /\ lastEvent.arg = <<"close">>
    /\ panel = ClosedPanel
(***************************************************************************)
(* Specifications                                                          *)
(***************************************************************************)
\* The controller: the initialization pass, the autoplay routine, the user's
\* events, persistence and leaving the page.
Next ==
    \/ Load
    \/ LoadedMetadata
    \/ Play1Resolve
    \/ Play1Reject
    \/ Play2Resolve
    \/ Play2Reject
    \/ \E value \in SliderValues : SliderInput(value)
    \/ MuteBtnClick
    \/ ToggleBtnClick
    \/ DocumentClick
    \/ KeyDown
    \/ VolumeChange
    \/ PersistTick
    \/ VisibilityHidden
    \/ BeforeUnload
    \/ Unload

Spec == Init /\ [][Next]_vars

\* The praise API on a document that has #bg-audio, with nothing stored,
\* on a platform with speech synthesis or with the tone only.
InitPraise ==
    /\ InitController
    /\ script = "audio.js"
    /\ page = [standIn |-> FALSE, duration |-> 4000, open |-> FALSE,
               controls |-> "all", storage |-> "ok"]
    /\ audio.readyState = 1
    /\ localStorage = [vol |-> null, muted |-> null]
    /\ sessionStorage = [time |-> null, playing |-> null]
    /\ synth \in {"speech", "tone"}

\* The direct praise calls, and the events that change audio.muted.
NextPraise ==
    \/ Load
    \/ Play1Resolve
    \/ Play1Reject
    \/ Play2Resolve
    \/ Play2Reject
    \/ MuteBtnClick
    \/ \E arg \in PraiseArgs : playPraise(arg)
    \/ \E key \in PraiseArgs : playPraiseKey(key)
    \/ UtteranceEnd

SpecPraise == InitPraise /\ [][NextPraise]_vars

\* The shuffle session on a document without #bg-audio (the stand-in is
\* created, so that the praise API is available), nothing stored.
InitShuffle ==
    /\ InitController
    /\ script = "audio.js"
    /\ page.standIn
    /\ page.controls = "all"
    /\ page.storage = "ok"
    /\ localStorage = [vol |-> null, muted |-> null]
    /\ sessionStorage = [time |-> null, playing |-> null]
    /\ synth \in {"speech", "tone"}

\* The calls that start and stop a shuffle, its timers, the direct calls,
\* and the event that changes audio.muted.
NextShuffle ==
    \/ Load
    \/ MuteBtnClick
    \/ \E arg \in FewPraiseArgs : playPraise(arg)
    \/ \E key \in FewPraiseArgs : playPraiseKey(key)
    \/ \E options \in ShuffleOptions : playPraiseShuffle(options)
    \/ stopPraiseShuffle
    \/ \E t \in pendingTimers : TimerFire(t)
    \/ UtteranceEnd

SpecShuffle == InitShuffle /\ [][NextShuffle]_vars

\* The shuffle session with a caller that keeps a handle and calls its
\* stop().
NextHandles ==
    \/ Load
    \/ \E options \in HandleOptions : playPraiseShuffle(options)
    \/ KeepHandle
    \/ HandleStop
    \/ stopPraiseShuffle
    \/ \E t \in pendingTimers : TimerFire(t)
    \/ UtteranceEnd

SpecHandles == InitShuffle /\ [][NextHandles]_vars

\* Both scripts on documents with all, some or none of the control
\* elements, with the media playable and no position saved.
InitControls ==
    /\ InitController
    /\ page.duration \in {0, 4000}
    /\ page.storage = "ok"
    /\ localStorage.vol \in {null, <<"1", ".", "5">>}
    /\ sessionStorage = [time |-> null, playing |-> null]
    /\ synth = "speech"

NextControls ==
    \/ Load
    \/ LoadedMetadata
    \/ Play1Resolve
    \/ Play1Reject
    \/ Play2Resolve
    \/ Play2Reject
    \/ \E value \in SliderValues : SliderInput(value)
    \/ MuteBtnClick
    \/ ToggleBtnClick
    \/ DocumentClick
    \/ KeyDown
    \/ VolumeChange
    \/ PersistTick
    \/ VisibilityHidden
    \/ BeforeUnload
    \/ Unload
    \/ LegacyLoad
    \/ LegacyPlayResolve
    \/ LegacyPlayReject
    \/ \E value \in SliderValues : LegacySliderInput(value)
    \/ LegacyMuteBtnClick
    \/ LegacyToggleBtnClick
    \/ LegacyDocumentClick
    \/ LegacyKeyDown
    \/ LegacyUnload

SpecControls == InitControls /\ [][NextControls]_vars

\* The praise-enabled controller with storages that work, refuse writes or
\* refuse every access.
InitStorage ==
    /\ InitController
    /\ script = "audio.js"
    /\ page.controls = "all"
    /\ page.duration \in {0, 4000}
    /\ localStorage.vol = null
    /\ sessionStorage = [time |-> null, playing |-> null]
    /\ synth = "speech"

SpecStorage == InitStorage /\ [][Next]_vars

====
